---- MODULE Spec2Model ----
(***************************************************************************)
(* A model of lumos' chain-following indexer (packages/indexer/lib/index.js *)
(* holds the native-backed front-end, lines 1-287, and the SQL-backed       *)
(* indexer, lines 289-815).                                                 *)
(*                                                                          *)
(* Encodings.  A hex string "0x.." is the sequence of its hex digits        *)
(* (0..15), a node Buffer the sequence of its bytes (0..255), a database    *)
(* bigint a natural number.  The columns dao, epoch, timestamp and          *)
(* udt_amount are written once and read by no query of the program; they    *)
(* are left out of the rows.  SQL NULL in an id column is 0 (ids start at   *)
(* 1, and the program only tests such a column for truthiness).             *)
(***************************************************************************)
EXTENDS Integers, Sequences, FiniteSets, TLC

\* ------------------------------------------------------------------ bounds
\* blocks the node ever produces (block ids 1..MaxBlocks)
MaxBlocks == 4
\* highest block number of the node's chain
MaxHeight == 2
\* the same two bounds where the blocks are plain
DeepBlocks == 6
DeepHeight == 3
\* the same two bounds where the follower's cycles are taken step by step
SchedBlocks == 4
SchedHeight == 2
\* the constructor's options keepNum and pruneInterval, small enough for the
\* chains above to reach them
keepNum == 1
pruneInterval == 2
\* timers and cycles the event loop holds at a time
MaxLoops == 2

\* ------------------------------------------------------------------- codec
Range(s) == {s[i] : i \in 1..Len(s)}

RECURSIVE HexToNat(_)
\* BigInt("0x..") of a hex string
HexToNat(h) ==
  IF Len(h) = 0 THEN 0
  ELSE 16 * HexToNat(SubSeq(h, 1, Len(h) - 1)) + h[Len(h)]

RECURSIVE NatToHex(_)
\* BigInt(n).toString(16): no leading zero, "0" for zero
NatToHex(n) ==
  IF n < 16 THEN <<n>> ELSE Append(NatToHex(n \div 16), n % 16)

hexToDbBigInt(hex) == HexToNat(hex)

dbBigIntToHex(i) == NatToHex(i)

hexToNodeBuffer(b) ==
  [i \in 1..(Len(b) \div 2) |-> 16 * b[2 * i - 1] + b[2 * i]]

nodeBufferToHex(b) ==
  [i \in 1..(2 * Len(b)) |->
     IF i % 2 = 1 THEN b[(i + 1) \div 2] \div 16 ELSE b[i \div 2] % 16]

\* ----------------------------------------------------------------- scripts
SCRIPT_TYPE_LOCK == 0
SCRIPT_TYPE_TYPE == 1
IO_TYPE_INPUT == 0
IO_TYPE_OUTPUT == 1

\* A script value {code_hash, hash_type, args}.  The JavaScript values null
\* and "empty" that a script parameter may also hold are the two records
\* below; IsObject is `x && typeof x === "object"`, Truthy is `!!x`.
NullScript == [code_hash |-> <<>>, hash_type |-> "null", args |-> <<>>]
EmptyString == [code_hash |-> <<>>, hash_type |-> "empty", args |-> <<>>]
Truthy(s) == s.hash_type # "null"
IsObject(s) == s.hash_type \in {"data", "type"}

MkScript(c, t, a) == [code_hash |-> c, hash_type |-> t, args |-> a]

\* ckbHash(SerializeScript(NormalizeScript(script))): a collision-free
\* digest of the script's three fields, as bytes
scriptToHash(script) ==
  <<hexToNodeBuffer(script.code_hash),
    IF script.hash_type = "type" THEN 1 ELSE 0,
    hexToNodeBuffer(script.args)>>

dbItemToScript(item) ==
  [code_hash |-> nodeBufferToHex(item.code_hash),
   hash_type |-> IF item.hash_type = 1 THEN "type" ELSE "data",
   args |-> nodeBufferToHex(item.args)]

\* ------------------------------------------------------------------- store
\* The database behind knex: one set of rows per table, and the
\* auto-increment counters of the id columns.
EmptyDb ==
  [block_digests |-> {}, transaction_digests |-> {},
   transaction_inputs |-> {}, transactions_scripts |-> {},
   cells |-> {}, scripts |-> {},
   next_tx_id |-> 1, next_cell_id |-> 1, next_script_id |-> 1]

Min(S) == CHOOSE x \in S : \A y \in S : x <= y

\* ensureScriptInserted that inserts without looking the script up
ensureScriptInserted_AlwaysInsert(d, script) ==
  <<[d EXCEPT !.scripts = @ \cup {[id |-> d.next_script_id,
                                   code_hash |-> hexToNodeBuffer(script.code_hash),
                                   hash_type |-> IF script.hash_type = "type"
                                                 THEN 1 ELSE 0,
                                   args |-> hexToNodeBuffer(script.args),
                                   script_hash |-> scriptToHash(script)]},
              !.next_script_id = @ + 1],
    d.next_script_id>>

\* returns <<db, id>>
ensureScriptInserted(d, script) ==
  LET data == [code_hash |-> hexToNodeBuffer(script.code_hash),
               hash_type |-> IF script.hash_type = "type" THEN 1 ELSE 0,
               args |-> hexToNodeBuffer(script.args),
               script_hash |-> scriptToHash(script)]
      ids == {r.id : r \in {x \in d.scripts :
                 /\ x.code_hash = data.code_hash
                 /\ x.hash_type = data.hash_type
                 /\ x.args = data.args
                 /\ x.script_hash = data.script_hash}}
  IN IF ids = {}
     THEN <<[d EXCEPT !.scripts = @ \cup {[id |-> d.next_script_id,
                                           code_hash |-> data.code_hash,
                                           hash_type |-> data.hash_type,
                                           args |-> data.args,
                                           script_hash |-> data.script_hash]},
                      !.next_script_id = @ + 1],
            d.next_script_id>>
     ELSE <<d, Min(ids)>>

\* Indexer.tip(): the block_digests row of the highest block_number, in hex;
\* <<>> is null
tip(d) ==
  IF d.block_digests = {} THEN <<>>
  ELSE LET top == CHOOSE r \in d.block_digests :
                    \A o \in d.block_digests : o.block_number <= r.block_number
       IN <<[block_number |-> dbBigIntToHex(top.block_number),
             block_hash |-> nodeBufferToHex(top.block_hash)]>>

\* append, lines 539-565: the cells an input names become consumed, and the
\* spending transaction is indexed under their scripts
SpendInput(d, txId, inputIndex, input) ==
  LET data == {c \in d.cells :
                 /\ c.tx_hash = hexToNodeBuffer(input.previous_output.tx_hash)
                 /\ c.index = hexToDbBigInt(input.previous_output.index)}
      ids == {c.id : c \in data}
  IN [d EXCEPT
        !.cells = {IF c.id \in ids THEN [c EXCEPT !.consumed = TRUE] ELSE c :
                     c \in @},
        !.transactions_scripts = @ \cup
           {[script_type |-> SCRIPT_TYPE_LOCK, io_type |-> IO_TYPE_INPUT,
             index |-> inputIndex, transaction_digest_id |-> txId,
             script_id |-> c.lock_script_id] : c \in data}
           \cup
           {[script_type |-> SCRIPT_TYPE_TYPE, io_type |-> IO_TYPE_INPUT,
             index |-> inputIndex, transaction_digest_id |-> txId,
             script_id |-> c.type_script_id] :
               c \in {x \in data : x.type_script_id # 0}}]

RECURSIVE SpendInputs(_, _, _, _)
\* the loop of line 539 from input k on (inputIndex = k - 1)
SpendInputs(d, txId, inputs, k) ==
  IF k > Len(inputs) THEN d
  ELSE SpendInputs(SpendInput(d, txId, k - 1, inputs[k]), txId, inputs, k + 1)

\* append, lines 567-576
InsertInputs(d, txId, inputs) ==
  [d EXCEPT !.transaction_inputs = @ \cup
     {[transaction_digest_id |-> txId,
       previous_tx_hash |-> hexToNodeBuffer(inputs[k].previous_output.tx_hash),
       previous_index |-> hexToDbBigInt(inputs[k].previous_output.index),
       input_index |-> k - 1] : k \in 1..Len(inputs)}]

\* append, lines 578-619: one output
InsertOutput(d, tx, txId, txIndex, blockNumber, outputIndex) ==
  LET output == tx.outputs[outputIndex + 1]
      outputData == tx.outputs_data[outputIndex + 1]
      l == ensureScriptInserted(d, output.lock)
      lockScriptId == l[2]
      t == IF Truthy(output.type) THEN ensureScriptInserted(l[1], output.type)
           ELSE <<l[1], 0>>
      typeScriptId == t[2]
      d2 == t[1]
  IN [d2 EXCEPT
        !.cells = @ \cup
           {[id |-> d2.next_cell_id, consumed |-> FALSE,
             capacity |-> hexToDbBigInt(output.capacity),
             tx_hash |-> hexToNodeBuffer(tx.hash), index |-> outputIndex,
             block_number |-> blockNumber, tx_index |-> txIndex,
             lock_script_id |-> lockScriptId,
             type_script_id |-> typeScriptId,
             data |-> hexToNodeBuffer(outputData)]},
        !.next_cell_id = @ + 1,
        !.transactions_scripts = @ \cup
           {[script_type |-> SCRIPT_TYPE_LOCK, io_type |-> IO_TYPE_OUTPUT,
             index |-> outputIndex, transaction_digest_id |-> txId,
             script_id |-> lockScriptId]}
           \cup
           (IF typeScriptId # 0
            THEN {[script_type |-> SCRIPT_TYPE_TYPE, io_type |-> IO_TYPE_OUTPUT,
                   index |-> outputIndex, transaction_digest_id |-> txId,
                   script_id |-> typeScriptId]}
            ELSE {})]

RECURSIVE InsertOutputs(_, _, _, _, _, _)
\* the loop of line 577 from output k on (outputIndex = k - 1)
InsertOutputs(d, tx, txId, txIndex, blockNumber, k) ==
  IF k > Len(tx.outputs) THEN d
  ELSE InsertOutputs(InsertOutput(d, tx, txId, txIndex, blockNumber, k - 1),
                     tx, txId, txIndex, blockNumber, k + 1)

\* append that records a transaction's inputs and marks no cell consumed
AppendTx_NoSpend(d, tx, txIndex, blockNumber) ==
  LET txId == d.next_tx_id
      d1 == [d EXCEPT
               !.transaction_digests = @ \cup
                  {[id |-> txId, tx_hash |-> hexToNodeBuffer(tx.hash),
                    tx_index |-> txIndex, output_count |-> Len(tx.outputs),
                    block_number |-> blockNumber]},
               !.next_tx_id = @ + 1]
      d3 == InsertInputs(d1, txId, tx.inputs)
  IN InsertOutputs(d3, tx, txId, txIndex, blockNumber, 1)

\* append, lines 523-620: one transaction of the block
AppendTx(d, tx, txIndex, blockNumber) ==
  LET txId == d.next_tx_id
      d1 == [d EXCEPT
               !.transaction_digests = @ \cup
                  {[id |-> txId, tx_hash |-> hexToNodeBuffer(tx.hash),
                    tx_index |-> txIndex, output_count |-> Len(tx.outputs),
                    block_number |-> blockNumber]},
               !.next_tx_id = @ + 1]
      \* Skip cellbase inputs
      d2 == IF txIndex > 0 THEN SpendInputs(d1, txId, tx.inputs, 1) ELSE d1
      d3 == InsertInputs(d2, txId, tx.inputs)
  IN InsertOutputs(d3, tx, txId, txIndex, blockNumber, 1)

RECURSIVE AppendTxs(_, _, _, _)
\* the loop of line 522 from transaction k on (txIndex = k - 1)
AppendTxs(d, txs, blockNumber, k) ==
  IF k > Len(txs) THEN d
  ELSE AppendTxs(AppendTx(d, txs[k], k - 1, blockNumber), txs, blockNumber,
                 k + 1)

\* Indexer.append(block): the store transaction of lines 508-622
append(d, block) ==
  LET blockNumber == hexToDbBigInt(block.header.number)
      d1 == [d EXCEPT !.block_digests = @ \cup
               {[block_number |-> blockNumber,
                 block_hash |-> hexToNodeBuffer(block.header.hash)]}]
  IN AppendTxs(d1, block.transactions, blockNumber, 1)

\* rollback() that deletes the tip block's rows and leaves the cells it
\* spent consumed
rollback_KeepConsumed(d) ==
  IF tip(d) = <<>> THEN d
  ELSE
    LET blockNumber == hexToDbBigInt(tip(d)[1].block_number)
        txs == {t.id : t \in {x \in d.transaction_digests :
                                x.block_number = blockNumber}}
    IN [d EXCEPT
          !.cells = {x \in @ : x.block_number # blockNumber},
          !.transaction_inputs =
             {i \in @ : i.transaction_digest_id \notin txs},
          !.transactions_scripts =
             {s \in @ : s.transaction_digest_id \notin txs},
          !.transaction_digests = {t \in @ : t.block_number # blockNumber},
          !.block_digests = {b \in @ : b.block_number # blockNumber}]

\* rollback's store transaction that leaves the transaction_inputs rows
rollbackTrx_KeepInputs(d, blockNumber) ==
  LET txs == {t.id : t \in {x \in d.transaction_digests :
                              x.block_number = blockNumber}}
      inputs == {i \in d.transaction_inputs :
                   i.transaction_digest_id \in txs}
      unspent == [c \in d.cells |->
                    IF \E i \in inputs : /\ c.tx_hash = i.previous_tx_hash
                                         /\ c.index = i.previous_index
                    THEN [c EXCEPT !.consumed = FALSE] ELSE c]
  IN [d EXCEPT
        !.cells = {unspent[c] : c \in {x \in @ :
                                        x.block_number # blockNumber}},
        !.transactions_scripts =
           {s \in @ : s.transaction_digest_id \notin txs},
        !.transaction_digests = {t \in @ : t.block_number # blockNumber},
        !.block_digests = {b \in @ : b.block_number # blockNumber}]

\* rollback's store transaction that leaves the transactions_scripts rows
rollbackTrx_KeepTxScripts(d, blockNumber) ==
  LET txs == {t.id : t \in {x \in d.transaction_digests :
                              x.block_number = blockNumber}}
      inputs == {i \in d.transaction_inputs :
                   i.transaction_digest_id \in txs}
      unspent == [c \in d.cells |->
                    IF \E i \in inputs : /\ c.tx_hash = i.previous_tx_hash
                                         /\ c.index = i.previous_index
                    THEN [c EXCEPT !.consumed = FALSE] ELSE c]
  IN [d EXCEPT
        !.cells = {unspent[c] : c \in {x \in @ :
                                        x.block_number # blockNumber}},
        !.transaction_inputs = @ \ inputs,
        !.transaction_digests = {t \in @ : t.block_number # blockNumber},
        !.block_digests = {b \in @ : b.block_number # blockNumber}]

\* Indexer.rollback(), lines 640-666: the store transaction, for the block
\* number read from the tip
rollbackTrx(d, blockNumber) ==
  LET txs == {t.id : t \in {x \in d.transaction_digests :
                              x.block_number = blockNumber}}
      inputs == {i \in d.transaction_inputs :
                   i.transaction_digest_id \in txs}
      unspent == [c \in d.cells |->
                    IF \E i \in inputs : /\ c.tx_hash = i.previous_tx_hash
                                         /\ c.index = i.previous_index
                    THEN [c EXCEPT !.consumed = FALSE] ELSE c]
  IN [d EXCEPT
        !.cells = {unspent[c] : c \in {x \in @ :
                                        x.block_number # blockNumber}},
        !.transaction_inputs = @ \ inputs,
        !.transactions_scripts =
           {s \in @ : s.transaction_digest_id \notin txs},
        !.transaction_digests = {t \in @ : t.block_number # blockNumber},
        !.block_digests = {b \in @ : b.block_number # blockNumber}]

\* Indexer.rollback()
rollback(d) ==
  IF tip(d) = <<>> THEN d
  ELSE rollbackTrx(d, hexToDbBigInt(tip(d)[1].block_number))

\* -------------------------------------------------------------------- node
\* The scripts, outputs and transactions the node's blocks are made of.
CodeA == <<0, 1>>
CodeB == <<0, 2>>
ArgsAB == <<10, 11>>
ArgsABCD == <<10, 11, 12, 13>>
L0 == MkScript(CodeA, "data", <<>>)
L1 == MkScript(CodeA, "data", ArgsAB)
L2 == MkScript(CodeA, "data", ArgsABCD)
T1 == MkScript(CodeB, "type", ArgsAB)

MkOutput(cap, lock, type, data) ==
  [out |-> [capacity |-> cap, lock |-> lock, type |-> type], data |-> data]

OutA == MkOutput(<<1, 0>>, L0, NullScript, <<>>)
OutB == MkOutput(<<15, 15>>, L1, T1, <<0, 1>>)
OutC == MkOutput(<<1>>, L2, NullScript, <<0, 1>>)
OutD == MkOutput(<<2>>, L0, T1, <<>>)

\* the outputs a cellbase may carry, and those of a spending transaction
CellbaseChoices == {<<OutA>>, <<OutB>>}
SpendChoices == {<<OutC, OutD>>}

\* the cellbase's synthetic input: the null out point
NullOutPoint == [tx_hash |-> <<0, 0>>, index |-> <<15, 15>>]

BlockHash(id) == <<0, id>>
TxHash(id, txIndex) == <<txIndex + 1, id>>

MkTx(hash, inputs, outs) ==
  [hash |-> hash,
   inputs |-> [k \in 1..Len(inputs) |-> [previous_output |-> inputs[k]]],
   outputs |-> [k \in 1..Len(outs) |-> outs[k].out],
   outputs_data |-> [k \in 1..Len(outs) |-> outs[k].data]]

\* block `id` of height `number` on top of `parent`; spend is <<>> or
\* <<[op |-> out point, outs |-> outputs]>>
MkBlock(id, number, parent, cb, spend) ==
  [header |-> [number |-> NatToHex(number), hash |-> BlockHash(id),
               parent_hash |-> parent],
   transactions |->
     <<MkTx(TxHash(id, 0), <<NullOutPoint>>, cb)>> \o
     [k \in 1..Len(spend) |-> MkTx(TxHash(id, k), <<spend[k].op>>,
                                   spend[k].outs)]]

\* The chain's rule for the unspent outputs: a transaction's outputs are
\* added, and the out points its inputs name removed unless it is a cellbase.
TxOutPoints(tx) ==
  {[tx_hash |-> tx.hash, index |-> NatToHex(k - 1)] : k \in 1..Len(tx.outputs)}

TxSpent(tx) == {tx.inputs[k].previous_output : k \in 1..Len(tx.inputs)}

RECURSIVE ReplayTxs(_, _, _)
ReplayTxs(utxo, txs, k) ==
  IF k > Len(txs) THEN utxo
  ELSE ReplayTxs(((IF k > 1 THEN utxo \ TxSpent(txs[k]) ELSE utxo)
                    \cup TxOutPoints(txs[k])), txs, k + 1)

RECURSIVE Replay(_, _)
\* the unspent out points after blocks 1..n of the sequence
Replay(blocks, n) ==
  IF n = 0 THEN {}
  ELSE ReplayTxs(Replay(blocks, n - 1), blocks[n].transactions, 1)

Utxo(blocks) == Replay(blocks, Len(blocks))

\* the transactions of a chain, and the one of a given hash
AllTxs(blocks) ==
  UNION {Range(blocks[n].transactions) : n \in 1..Len(blocks)}

TxOfHash(blocks, h) == CHOOSE t \in AllTxs(blocks) : t.hash = h

\* one slot of the follower's event loop: a timer armed by scheduleLoop
\* ("timer"), or a cycle in flight, waiting for tip() ("tip"), for the RPC
\* ("rpc"), for append's store transaction ("trx"), for the continuation
\* after its commit ("committed"), for rollback's tip() ("rb_tip") or for
\* rollback's store transaction ("rb_trx"); "none" is a free slot.  t and
\* block are the cycle's local variables tip and block, timeout the delay
\* of the timer, fresh marks the loop a start() has begun until its first
\* cycle has asked the node for a block.
NoLoop ==
  [pc |-> "none", t |-> <<>>, block |-> <<>>, timeout |-> 0, fresh |-> FALSE]

VARIABLES
  chain,    \* the node's canonical chain: chain[n + 1] is block number n
  mined,    \* how many blocks the node has produced
  frozen,   \* the node's chain has stopped changing
  db,       \* the store
  stored,   \* history: the blocks appended and not rolled back, oldest first
  last,     \* history: what the last poll cycle did, the delay it returned
            \* and the block it appended or removed
  isRunning,  \* Indexer.isRunning
  armed,      \* startForever() has armed the liveness interval
  loops,      \* the follower's pending timers and cycles in flight
  heard,      \* history: the hashes newBlockListener was called with
  log,        \* history: the store transactions committed, oldest first
  failedAt    \* history: the block number the last failed cycle asked for

\* the follower's scheduling state, which the specifications of whole poll
\* cycles leave alone
sched == <<isRunning, armed, loops, heard, log, failedAt>>

vars == <<chain, mined, frozen, db, stored, last, sched>>

\* rpc.get_block_by_number(hex): <<block>>, or <<>> for null
get_block_by_number(hex) ==
  LET n == HexToNat(hex)
  IN IF n + 1 <= Len(chain) THEN <<chain[n + 1]>> ELSE <<>>

Spends(blocks) ==
  {<<>>} \cup {<<[op |-> op, outs |-> o]>> :
                 op \in Utxo(blocks), o \in SpendChoices}

Init ==
  /\ \E cb \in CellbaseChoices :
       chain = <<MkBlock(1, 0, <<0, 0>>, cb, <<>>)>>
  /\ mined = 1
  /\ frozen = FALSE
  /\ db = EmptyDb
  /\ stored = <<>>
  /\ last = [op |-> "none", timeout |-> 0, block |-> <<>>]
  /\ isRunning = FALSE
  /\ armed = FALSE
  /\ loops = [i \in 1..MaxLoops |-> NoLoop]
  /\ heard = <<>>
  /\ log = <<>>
  /\ failedAt = -1

\* the node extends its chain by a valid block
MineBlock(cbs, spends, maxBlocks, maxHeight) ==
  /\ ~frozen
  /\ mined < maxBlocks
  /\ Len(chain) <= maxHeight
  /\ \E cb \in cbs, spend \in spends :
       chain' = Append(chain, MkBlock(mined + 1, Len(chain),
                                      chain[Len(chain)].header.hash, cb, spend))
  /\ mined' = mined + 1
  /\ UNCHANGED <<frozen, db, stored, last, sched>>

\* the node abandons the blocks above number k - 1
DropBlocks(maxBlocks) ==
  /\ ~frozen
  /\ mined < maxBlocks
  /\ \E k \in 1..(Len(chain) - 1) : chain' = SubSeq(chain, 1, k)
  /\ UNCHANGED <<mined, frozen, db, stored, last, sched>>

\* the cellbase outputs alternate with the block id, any unspent output may
\* be spent
Mine ==
  MineBlock({IF mined % 2 = 0 THEN <<OutA>> ELSE <<OutB>>}, Spends(chain),
            MaxBlocks, MaxHeight)

Reorg == DropBlocks(MaxBlocks)

\* the same with plain blocks (one cellbase, no other transaction), for
\* longer chains and deeper reorganizations
MinePlain == MineBlock({<<OutA>>}, {<<>>}, DeepBlocks, DeepHeight)

ReorgDeep == DropBlocks(DeepBlocks)

Freeze ==
  /\ ~frozen
  /\ frozen' = TRUE
  /\ UNCHANGED <<chain, mined, db, stored, last, sched>>

\* ---------------------------------------------------------------- follower
pollIntervalSeconds == 2

\* poll() that returns the long delay after an append
pollAnswered_SlowCatchup(d, t, block) ==
  IF t # <<>>
  THEN IF block # <<>>
       THEN IF block[1].header.parent_hash = t[1].block_hash
            THEN <<append(d, block[1]), "append", pollIntervalSeconds * 1000>>
            ELSE <<rollback(d), "rollback", 1>>
       ELSE <<d, "wait", pollIntervalSeconds * 1000>>
  ELSE <<append(d, block[1]), "append", 1>>

\* poll() that appends the next block without comparing its parent_hash
pollAnswered_NoParentCheck(d, t, block) ==
  IF t # <<>>
  THEN IF block # <<>>
       THEN <<append(d, block[1]), "append", 1>>
       ELSE <<d, "wait", pollIntervalSeconds * 1000>>
  ELSE <<append(d, block[1]), "append", 1>>

\* poll() that waits where the parent_hash differs
pollAnswered_NoRollback(d, t, block) ==
  IF t # <<>>
  THEN IF block # <<>> /\ block[1].header.parent_hash = t[1].block_hash
       THEN <<append(d, block[1]), "append", 1>>
       ELSE <<d, "wait", pollIntervalSeconds * 1000>>
  ELSE <<append(d, block[1]), "append", 1>>

\* Indexer.poll() once tip() and the RPC have answered, lines 470-489: t is
\* the tip (<<>> for null), block the node's answer for block tip + 1, or
\* for block 0 without a tip (<<>> for null).  The result is <<the store
\* afterwards, what was done, the delay returned>>.
pollAnswered(d, t, block) ==
  IF t # <<>>
  THEN IF block # <<>>
       THEN IF block[1].header.parent_hash = t[1].block_hash
            THEN <<append(d, block[1]), "append", 1>>
            ELSE <<rollback(d), "rollback", 1>>
       ELSE <<d, "wait", pollIntervalSeconds * 1000>>
  ELSE <<append(d, block[1]), "append", 1>>

\* lines 472-475 and 486: the block number poll() asks the node for
nextBlockNumber(t) ==
  IF t # <<>> THEN HexToNat(t[1].block_number) + 1 ELSE 0

\* one poll cycle of the follower: Indexer.poll()
Poll ==
  /\ \E t \in {tip(db)} :
       \E block \in {get_block_by_number(dbBigIntToHex(nextBlockNumber(t)))} :
         \E r \in {pollAnswered(db, t, block)} :
           /\ db' = r[1]
           /\ last' = [op |-> r[2], timeout |-> r[3],
                       block |-> CASE r[2] = "append" -> block
                                   [] r[2] = "rollback" ->
                                        <<stored[Len(stored)]>>
                                   [] OTHER -> <<>>]
           /\ stored' = CASE r[2] = "append" -> Append(stored, block[1])
                          [] r[2] = "rollback" ->
                               SubSeq(stored, 1, Len(stored) - 1)
                          [] OTHER -> stored
  /\ UNCHANGED <<chain, mined, frozen, sched>>

Next == Mine \/ Reorg \/ Poll

Spec == Init /\ [][Next]_vars

NextDeep == MinePlain \/ ReorgDeep \/ Freeze \/ Poll

\* plain blocks, deep reorganizations, a node that may stop changing
SpecDeep == Init /\ [][NextDeep]_vars

\* the follower keeps running: its timer fires and the cycle completes
SpecLive == SpecDeep /\ WF_vars(Poll)

\* a block may spend any unspent output into one output
SpendsPlain(blocks) ==
  {<<>>} \cup {<<[op |-> op, outs |-> <<OutA>>]>> : op \in Utxo(blocks)}

MineSpend == MineBlock({<<OutA>>}, SpendsPlain(chain), MaxBlocks, MaxHeight)

NextFollow == MineSpend \/ Reorg \/ Poll

\* blocks that spend, and a follower that keeps running
SpecFollowLive == Init /\ [][NextFollow]_vars /\ WF_vars(Poll)

\* ------------------------------------------------------------------ prune
\* prune() that deletes the old cells whether consumed or not
prune_AllCells(d) ==
  IF tip(d) = <<>> THEN d
  ELSE
    LET tipNumber == HexToNat(tip(d)[1].block_number)
    IN IF tipNumber > keepNum
       THEN LET pruneToBlock == tipNumber - keepNum
                old == {t.id : t \in {x \in d.transaction_digests :
                                        x.block_number < pruneToBlock}}
            IN [d EXCEPT
                  !.cells = {c \in @ : ~(c.block_number < pruneToBlock)},
                  !.transaction_inputs =
                     {r \in @ : r.transaction_digest_id \notin old}]
       ELSE d

\* Indexer.prune(), lines 669-691
prune(d) ==
  IF tip(d) = <<>> THEN d
  ELSE
    LET tipNumber == HexToNat(tip(d)[1].block_number)
    IN IF tipNumber > keepNum
       THEN LET pruneToBlock == tipNumber - keepNum
                old == {t.id : t \in {x \in d.transaction_digests :
                                        x.block_number < pruneToBlock}}
            IN [d EXCEPT
                  !.cells = {c \in @ : ~(c.consumed
                                          /\ c.block_number < pruneToBlock)},
                  !.transaction_inputs =
                     {r \in @ : r.transaction_digest_id \notin old}]
       ELSE d

\* a client calls indexer.prune() between two poll cycles
Prune ==
  /\ db' = prune(db)
  /\ last' = [op |-> "prune", timeout |-> 0, block |-> <<>>]
  /\ UNCHANGED <<chain, mined, frozen, stored, sched>>

NextPrune == Mine \/ Reorg \/ Poll \/ Prune

SpecPrune == Init /\ [][NextPrune]_vars

\* ------------------------------------------- follower, step by step
\* The same follower with its suspension points: a cycle awaits tip(), the
\* RPC and the store transaction, and other events run in between.

\* The store's uniqueness constraints (the schema is not part of index.js):
\* block_digests.block_number, transaction_digests.tx_hash and
\* (block_number, tx_index), cells (tx_hash, index).  TRUE where the rows of
\* the block would break one.
uniqueViolation(d, block) ==
  LET blockNumber == hexToDbBigInt(block.header.number)
      hashes == {hexToNodeBuffer(block.transactions[k].hash) :
                   k \in 1..Len(block.transactions)}
  IN \/ \E r \in d.block_digests : r.block_number = blockNumber
     \/ \E r \in d.transaction_digests :
          r.tx_hash \in hashes \/ r.block_number = blockNumber
     \/ \E c \in d.cells : c.tx_hash \in hashes

\* append's store transaction after its first k statement groups (the
\* block_digests row, then one group per transaction): what the transaction
\* has written when it fails there
appendStatements(d, block, k) ==
  IF k = 0 THEN d
  ELSE LET blockNumber == hexToDbBigInt(block.header.number)
           d1 == [d EXCEPT !.block_digests = @ \cup
                    {[block_number |-> blockNumber,
                      block_hash |-> hexToNodeBuffer(block.header.hash)]}]
       IN AppendTxs(d1, SubSeq(block.transactions, 1, k - 1), blockNumber, 1)

\* a store transaction whose statements stay when its callback rejects
trxAbort_KeepWrites(d, written) == written

\* knex.transaction(callback) whose callback rejects: the statements issued
\* through trx are rolled back, the store is as before
trxAbort(d, written) == d

\* the supervisor's test of line 421 that restarts a running follower too
livenessCheck_Always(running) == TRUE

\* startForever's interval callback, line 421: whether it calls start()
livenessCheck(running) == ~running

\* loop() that does not look at the flag
loopRuns_Unchecked(running) == TRUE

\* loop(), lines 451-453: whether the cycle begins
loopRuns(running) == running

FreeSlots == {i \in 1..MaxLoops : loops[i].pc = "none"}

Timer(timeout, fresh) ==
  [NoLoop EXCEPT !.pc = "timer", !.timeout = timeout, !.fresh = fresh]

\* scheduleLoop(timeout), lines 444-448: one more timer
scheduleLoop(ls, timeout, fresh) ==
  [ls EXCEPT ![Min({i \in 1..MaxLoops : ls[i].pc = "none"})] =
     Timer(timeout, fresh)]

\* start(), lines 435-438
start ==
  /\ FreeSlots # {}
  /\ isRunning' = TRUE
  /\ loops' = scheduleLoop(loops, 1, TRUE)

\* a client calls start()
Start ==
  /\ start
  /\ UNCHANGED <<chain, mined, frozen, db, stored, last, armed, heard, log,
                 failedAt>>

\* a client calls stop(), lines 440-442
Stop ==
  /\ isRunning
  /\ isRunning' = FALSE
  /\ UNCHANGED <<chain, mined, frozen, db, stored, last, armed, loops, heard,
                 log, failedAt>>

\* a client calls startForever(), lines 418-433
StartForever ==
  /\ ~armed
  /\ armed' = TRUE
  /\ start
  /\ UNCHANGED <<chain, mined, frozen, db, stored, last, heard, log,
                 failedAt>>

\* the liveness interval fires, lines 420-432; with the follower running it
\* logs the tip and changes nothing
Tick ==
  /\ armed
  /\ livenessCheck(isRunning)
  /\ start
  /\ UNCHANGED <<chain, mined, frozen, db, stored, last, armed, heard, log,
                 failedAt>>

\* a timer fires: loop(), lines 450-454, up to the call of poll()
Fire(i) ==
  /\ loops[i].pc = "timer"
  /\ loops' = [loops EXCEPT ![i] =
       IF loopRuns(isRunning)
       THEN [@ EXCEPT !.pc = "tip", !.timeout = 0]
       ELSE NoLoop]
  /\ UNCHANGED <<chain, mined, frozen, db, stored, last, isRunning, armed,
                 heard, log, failedAt>>

\* tip() answers, line 469
ReadTip(i) ==
  /\ loops[i].pc = "tip"
  /\ loops' = [loops EXCEPT ![i] = [@ EXCEPT !.pc = "rpc", !.t = tip(db)]]
  /\ UNCHANGED <<chain, mined, frozen, db, stored, last, isRunning, armed,
                 heard, log, failedAt>>

\* the node answers get_block_by_number, lines 473-487: poll() goes on to
\* append, to rollback, or returns the delay of the next cycle
Rpc(i) ==
  /\ loops[i].pc = "rpc"
  /\ \E block \in
         {get_block_by_number(dbBigIntToHex(nextBlockNumber(loops[i].t)))} :
       \E r \in {pollAnswered(EmptyDb, loops[i].t, block)} :
         loops' = [loops EXCEPT ![i] =
           CASE r[2] = "append" ->
                  [@ EXCEPT !.pc = "trx", !.block = block, !.fresh = FALSE]
             [] r[2] = "rollback" ->
                  [@ EXCEPT !.pc = "rb_tip", !.fresh = FALSE]
             [] OTHER -> Timer(r[3], FALSE)]
  /\ UNCHANGED <<chain, mined, frozen, db, stored, last, isRunning, armed,
                 heard, log, failedAt>>

\* a catch that schedules the cycle again at once
Fails_Retry(i) ==
  /\ loops' = [loops EXCEPT ![i] = [NoLoop EXCEPT !.pc = "tip"]]
  /\ failedAt' = nextBlockNumber(loops[i].t)
  /\ last' = [op |-> "failed", timeout |-> 0, block |-> loops[i].block]
  /\ UNCHANGED <<chain, mined, frozen, stored, isRunning, armed, heard, log>>

\* the cycle of loop i rejects: the catch of lines 458-464 logs and calls
\* stop(), and nothing is scheduled
Fails(i) ==
  /\ loops' = [loops EXCEPT ![i] = NoLoop]
  /\ isRunning' = FALSE
  /\ failedAt' = nextBlockNumber(loops[i].t)
  /\ last' = [op |-> "failed", timeout |-> 0, block |-> loops[i].block]
  /\ UNCHANGED <<chain, mined, frozen, stored, armed, heard, log>>

\* the RPC fails (network error, timeout)
RpcFail(i) ==
  /\ loops[i].pc = "rpc"
  /\ Fails(i)
  /\ UNCHANGED db

\* append's store transaction commits, lines 508-622
Commit(i) ==
  /\ loops[i].pc = "trx"
  /\ ~uniqueViolation(db, loops[i].block[1])
  /\ db' = append(db, loops[i].block[1])
  /\ log' = Append(log, [op |-> "append",
                         number |-> HexToNat(loops[i].block[1].header.number),
                         hash |-> loops[i].block[1].header.hash])
  /\ loops' = [loops EXCEPT ![i] = [@ EXCEPT !.pc = "committed"]]
  /\ UNCHANGED <<chain, mined, frozen, stored, last, isRunning, armed, heard,
                 failedAt>>

\* append's store transaction fails at its k-th statement group: a store
\* error, or a uniqueness violation against what has been committed
TrxFail(i) ==
  /\ loops[i].pc = "trx"
  /\ \E k \in 0..Len(loops[i].block[1].transactions) :
       db' = trxAbort(db, appendStatements(db, loops[i].block[1], k))
  /\ Fails(i)

\* poll() goes on behind the committed append: line 623 calls
\* newBlockListener, poll() returns 1 and loop() schedules the next cycle
Continue(i) ==
  /\ loops[i].pc = "committed"
  /\ heard' = Append(heard, loops[i].block[1].header.hash)
  /\ loops' = [loops EXCEPT ![i] = Timer(1, FALSE)]
  /\ UNCHANGED <<chain, mined, frozen, db, stored, last, isRunning, armed,
                 log, failedAt>>

\* newBlockListener throws, line 623, behind the committed append: append()
\* and poll() reject and loop() stops the follower, lines 458-464
ListenerFail(i) ==
  /\ loops[i].pc = "committed"
  /\ heard' = Append(heard, loops[i].block[1].header.hash)
  /\ loops' = [loops EXCEPT ![i] = NoLoop]
  /\ isRunning' = FALSE
  /\ failedAt' = nextBlockNumber(loops[i].t)
  /\ last' = [op |-> "listener", timeout |-> 0, block |-> loops[i].block]
  /\ UNCHANGED <<chain, mined, frozen, db, stored, armed, log>>

\* rollback() reads the tip again, lines 634-637
RollbackTip(i) ==
  /\ loops[i].pc = "rb_tip"
  /\ loops' = [loops EXCEPT ![i] =
       IF tip(db) = <<>> THEN Timer(1, FALSE)
       ELSE [@ EXCEPT !.pc = "rb_trx", !.t = tip(db)]]
  /\ UNCHANGED <<chain, mined, frozen, db, stored, last, isRunning, armed,
                 heard, log, failedAt>>

\* rollback's store transaction commits, lines 640-666, and the next cycle
\* is scheduled
RollbackCommit(i) ==
  /\ loops[i].pc = "rb_trx"
  /\ \E n \in {hexToDbBigInt(loops[i].t[1].block_number)} :
       /\ db' = rollbackTrx(db, n)
       /\ log' = Append(log, [op |-> "rollback", number |-> n,
                              hash |-> loops[i].t[1].block_hash])
  /\ loops' = [loops EXCEPT ![i] = Timer(1, FALSE)]
  /\ UNCHANGED <<chain, mined, frozen, stored, last, isRunning, armed, heard,
                 failedAt>>

\* rollback's store transaction fails
RollbackFail(i) ==
  /\ loops[i].pc = "rb_trx"
  /\ db' = trxAbort(db, db)
  /\ Fails(i)

\* one event of the follower's loops
LoopStep ==
  \E i \in 1..MaxLoops :
    \/ Fire(i) \/ ReadTip(i) \/ Rpc(i) \/ Commit(i) \/ Continue(i)
    \/ RollbackTip(i) \/ RollbackCommit(i)

LoopFailure ==
  \E i \in 1..MaxLoops :
    RpcFail(i) \/ TrxFail(i) \/ RollbackFail(i) \/ ListenerFail(i)

MineSched == MineBlock({<<OutA>>}, {<<>>}, SchedBlocks, SchedHeight)

ReorgSched == DropBlocks(SchedBlocks)

NextSched ==
  \/ MineSched \/ ReorgSched
  \/ Start \/ Stop \/ StartForever \/ Tick
  \/ LoopStep \/ LoopFailure

\* a client drives start(), stop() and startForever() at will
SpecSched == Init /\ [][NextSched]_vars

NextSup ==
  \/ MineSched \/ ReorgSched
  \/ StartForever \/ Tick
  \/ LoopStep \/ LoopFailure

\* the follower under startForever() alone
SpecSup == Init /\ [][NextSup]_vars

\* the liveness interval keeps firing
SpecSupLive == SpecSup /\ WF_vars(Tick)

\* a client calls start() on a follower that has no timer and no cycle
StartIdle == FreeSlots = 1..MaxLoops /\ Start

NextStop ==
  \/ MineSched \/ ReorgSched
  \/ StartIdle \/ Stop
  \/ LoopStep \/ LoopFailure

\* a client that calls stop() at will and start() only once the loop it
\* started before has ended; every timer fires and every awaited operation
\* settles
SpecStopLive ==
  Init /\ [][NextStop]_vars /\ WF_vars(LoopStep \/ LoopFailure)

\* ------------------------------------------------- SQL cell collector
\* A collector's options {lock, type, argsLen, data}: lock and type are a
\* script, NullScript or (type) EmptyString; data is <<>> for null and
\* <<hex>> for the string "0x..".
MkQuery(lock, type, argsLen, data) ==
  [lock |-> lock, type |-> type, argsLen |-> argsLen, data |-> data]

\* validators.ValidateScript: a script object passes, any other value throws
ValidateScript(s) == IsObject(s)

\* CellCollector constructor (both front-ends): "ok" or the error thrown
CellCollector_new(q) ==
  IF ~Truthy(q.lock) /\ ~Truthy(q.type)
  THEN "Either lock or type script must be provided!"
  ELSE IF Truthy(q.lock) /\ ~ValidateScript(q.lock) THEN "ValidationError"
  ELSE IF IsObject(q.type) /\ ~ValidateScript(q.type) THEN "ValidationError"
  ELSE "ok"

\* SQL substring(args, 1, n)
substring1(args, n) ==
  SubSeq(args, 1, IF n < Len(args) THEN n ELSE Len(args))

\* the sub-query of lines 726-738 (and 745-757): the ids of the scripts
\* rows that match a filter script
scriptQuery(d, f, argsLen) ==
  LET binaryArgs == hexToNodeBuffer(f.args)
  IN {r.id : r \in {x \in d.scripts :
        /\ x.code_hash = hexToNodeBuffer(f.code_hash)
        /\ x.hash_type = (IF f.hash_type = "type" THEN 1 ELSE 0)
        /\ substring1(x.args, Len(binaryArgs)) = binaryArgs
        /\ (argsLen > 0 => Len(x.args) = argsLen)}}

\* hexToNodeBuffer(this.type.args) of a type that is no object ("empty"):
\* args is undefined, and new Reader(undefined) throws
assembleThrows(q) ==
  \/ Truthy(q.lock) /\ ~IsObject(q.lock)
  \/ Truthy(q.type) /\ ~IsObject(q.type)

\* _assembleQuery that takes `data = "0x"` for no data filter
assembleQuery_EmptyDataFalsy(d, q) ==
  LET lockQuery == scriptQuery(d, q.lock, q.argsLen)
      typeQuery == scriptQuery(d, q.type, q.argsLen)
  IN {c \in d.cells :
        /\ c.consumed = FALSE
        /\ Truthy(q.lock) => c.lock_script_id \in lockQuery
        /\ Truthy(q.type) => c.type_script_id \in typeQuery
        /\ (q.data # <<>> /\ q.data[1] # <<>>) =>
             c.data = hexToNodeBuffer(q.data[1])}

\* _assembleQuery that compares the whole args where it should the prefix
assembleQuery_ExactArgs(d, q) ==
  LET ids(f) == {r.id : r \in {x \in d.scripts :
                    /\ x.code_hash = hexToNodeBuffer(f.code_hash)
                    /\ x.hash_type = (IF f.hash_type = "type" THEN 1 ELSE 0)
                    /\ x.args = hexToNodeBuffer(f.args)
                    /\ (q.argsLen > 0 => Len(x.args) = q.argsLen)}}
  IN {c \in d.cells :
        /\ c.consumed = FALSE
        /\ Truthy(q.lock) => c.lock_script_id \in ids(q.lock)
        /\ Truthy(q.type) => c.type_script_id \in ids(q.type)
        /\ q.data # <<>> => c.data = hexToNodeBuffer(q.data[1])}

\* CellCollector._assembleQuery: the rows the query selects (where it does
\* not throw), before any ordering
assembleQuery(d, q) ==
  LET lockQuery == scriptQuery(d, q.lock, q.argsLen)
      typeQuery == scriptQuery(d, q.type, q.argsLen)
  IN {c \in d.cells :
        /\ c.consumed = FALSE
        /\ Truthy(q.lock) => c.lock_script_id \in lockQuery
        /\ Truthy(q.type) => c.type_script_id \in typeQuery
        /\ q.data # <<>> => c.data = hexToNodeBuffer(q.data[1])}

\* the key of orderBy(["cells.block_number", "tx_index", "index"], "asc")
CellBefore(a, b) ==
  \/ a.block_number < b.block_number
  \/ a.block_number = b.block_number /\ a.tx_index < b.tx_index
  \/ /\ a.block_number = b.block_number
     /\ a.tx_index = b.tx_index
     /\ a.index <= b.index

RECURSIVE orderBy_Desc(_)
\* the rows in descending order of the key
orderBy_Desc(rows) ==
  IF rows = {} THEN <<>>
  ELSE LET first == CHOOSE c \in rows : \A o \in rows : CellBefore(o, c)
       IN <<first>> \o orderBy_Desc(rows \ {first})

RECURSIVE orderBy(_)
\* the rows in ascending order of the key
orderBy(rows) ==
  IF rows = {} THEN <<>>
  ELSE LET first == CHOOSE c \in rows : \A o \in rows : CellBefore(c, o)
       IN <<first>> \o orderBy(rows \ {first})

\* CellCollector.count(): <<error>> or the SQL count
count(d, q) ==
  IF assembleThrows(q) THEN [err |-> TRUE, count |-> 0]
  ELSE [err |-> FALSE, count |-> Cardinality(assembleQuery(d, q))]

\* locateScript: <<script>>, or <<>> where it throws
locateScript(d, id) ==
  LET data == {r \in d.scripts : r.id = id}
  IN IF data = {} THEN <<>>
     ELSE <<dbItemToScript(CHOOSE r \in data : TRUE)>>

\* lines 794-807: the record yielded for a row joined with its block digest
\* and its lock script
CellItem(d, c) ==
  LET digest == CHOOSE b \in d.block_digests : b.block_number = c.block_number
      lock == CHOOSE r \in d.scripts : r.id = c.lock_script_id
  IN [cell_output |->
        [capacity |-> dbBigIntToHex(c.capacity),
         lock |-> dbItemToScript(lock),
         type |-> IF c.type_script_id # 0
                  THEN locateScript(d, c.type_script_id)[1]
                  ELSE NullScript],
      out_point |-> [tx_hash |-> nodeBufferToHex(c.tx_hash),
                     index |-> dbBigIntToHex(c.index)],
      block_hash |-> nodeBufferToHex(digest.block_hash),
      block_number |-> dbBigIntToHex(c.block_number),
      data |-> nodeBufferToHex(c.data)]

\* CellCollector.collect(): the ordered query inner-joined with
\* block_digests and scripts; err where the query or locateScript throws
collect(d, q) ==
  IF assembleThrows(q) THEN [err |-> TRUE, items |-> <<>>]
  ELSE
    LET joined == {c \in assembleQuery(d, q) :
                     /\ \E b \in d.block_digests :
                          b.block_number = c.block_number
                     /\ \E r \in d.scripts : r.id = c.lock_script_id}
        rows == orderBy(joined)
    IN IF \E c \in joined :
            c.type_script_id # 0 /\ locateScript(d, c.type_script_id) = <<>>
       THEN [err |-> TRUE, items |-> <<>>]
       ELSE [err |-> FALSE,
             items |-> [k \in 1..Len(rows) |-> CellItem(d, rows[k])]]

\* ------------------------------------------- native-backed front-end
\* The embedded engine (../native) indexes the chain it follows; here it
\* holds the blocks `blocks`.  Its two queries are not part of index.js.

\* a transaction's place in the chain: <<block number, index in the block>>
TxPlace(blocks, h) ==
  LET n == CHOOSE i \in 1..Len(blocks) :
             \E t \in Range(blocks[i].transactions) : t.hash = h
      k == CHOOSE i \in 1..Len(blocks[n].transactions) :
             blocks[n].transactions[i].hash = h
  IN <<n - 1, k - 1>>

OutPointBefore(blocks, a, b) ==
  LET pa == TxPlace(blocks, a.tx_hash)
      pb == TxPlace(blocks, b.tx_hash)
  IN \/ pa[1] < pb[1]
     \/ pa[1] = pb[1] /\ pa[2] < pb[2]
     \/ pa = pb /\ HexToNat(a.index) <= HexToNat(b.index)

RECURSIVE InChainOrder(_, _)
InChainOrder(blocks, ops) ==
  IF ops = {} THEN <<>>
  ELSE LET first == CHOOSE a \in ops :
                      \A b \in ops : OutPointBefore(blocks, a, b)
       IN <<first>> \o InChainOrder(blocks, ops \ {first})

\* nativeIndexer.getLiveCellsByScript(script, scriptType, argsLen, true):
\* the out points of the live cells whose lock (0) or type (1) has the
\* script's code_hash and hash_type and args starting with its args
nativeGetLiveCellsByScript(blocks, script, scriptType, argsLen) ==
  InChainOrder(blocks,
    {o \in Utxo(blocks) :
       LET out == TxOfHash(blocks, o.tx_hash).outputs[HexToNat(o.index) + 1]
       IN IF scriptType = SCRIPT_TYPE_LOCK
          THEN /\ out.lock.code_hash = script.code_hash
               /\ out.lock.hash_type = script.hash_type
               /\ Len(script.args) <= Len(out.lock.args)
               /\ SubSeq(out.lock.args, 1, Len(script.args)) = script.args
               /\ (argsLen > 0 => Len(out.lock.args) = 2 * argsLen)
          ELSE /\ out.type.hash_type # "null"
               /\ out.type.code_hash = script.code_hash
               /\ out.type.hash_type = script.hash_type
               /\ Len(script.args) <= Len(out.type.args)
               /\ SubSeq(out.type.args, 1, Len(script.args)) = script.args
               /\ (argsLen > 0 => Len(out.type.args) = 2 * argsLen)})

\* nativeIndexer.getDetailedLiveCell(outPoint)
nativeGetDetailedLiveCell(blocks, o) ==
  LET tx == TxOfHash(blocks, o.tx_hash)
      k == HexToNat(o.index) + 1
      n == TxPlace(blocks, o.tx_hash)[1]
  IN [cell_output |-> tx.outputs[k], out_point |-> o,
      block_hash |-> blocks[n + 1].header.hash,
      block_number |-> blocks[n + 1].header.number,
      data |-> tx.outputs_data[k]]

\* Indexer._getLiveCellsByScript (lines 42-49): normalizers.NormalizeScript
\* throws for a value that is no script object; <<>> stands for the throw
getLiveCellsByScript(blocks, script, scriptType, argsLen) ==
  IF ~IsObject(script) THEN <<>>
  ELSE <<nativeGetLiveCellsByScript(blocks, script, scriptType, argsLen)>>

\* OrderedSet.intersect: the members of a that are in b, in a's order
intersect(a, b) == SelectSeq(a, LAMBDA x : x \in Range(b))

\* lines 152-157 and 168-180: the cells of the out points that pass the
\* "empty" test and the data test
NativeYield(blocks, q, ops, scriptType) ==
  LET cells == [k \in 1..Len(ops) |-> nativeGetDetailedLiveCell(blocks, ops[k])]
  IN SelectSeq(cells, LAMBDA cell :
       /\ ~(/\ scriptType = 1
            /\ q.type = EmptyString
            /\ Truthy(cell.cell_output.type))
       /\ ~(q.data # <<>> /\ cell.data # q.data[1]))

\* CellCollector.collect() of the native-backed front-end, lines 130-183
NativeCollect(blocks, q) ==
  IF Truthy(q.lock) /\ IsObject(q.type)
  THEN LET lockOutPoints ==
             getLiveCellsByScript(blocks, q.lock, 0, q.argsLen)
           typeOutPoints ==
             getLiveCellsByScript(blocks, q.type, 1, q.argsLen)
       IN IF lockOutPoints = <<>> \/ typeOutPoints = <<>>
          THEN [err |-> TRUE, items |-> <<>>]
          ELSE [err |-> FALSE,
                items |-> NativeYield(blocks, q,
                            intersect(lockOutPoints[1], typeOutPoints[1]), 0)]
  ELSE LET script == IF Truthy(q.lock) THEN q.lock ELSE q.type
           scriptType == IF Truthy(q.lock) THEN 0 ELSE 1
           ops == getLiveCellsByScript(blocks, script, scriptType, q.argsLen)
       IN IF ops = <<>> THEN [err |-> TRUE, items |-> <<>>]
          ELSE [err |-> FALSE,
                items |-> NativeYield(blocks, q, ops[1], scriptType)]

\* ---------------------------------------------- transaction collector
\* The four filters {input_lock, output_lock, input_type, output_type},
\* each a script or NullScript (null, or left out), and the options.
MkTxQuery(il, ol, it, ot) ==
  [input_lock |-> il, output_lock |-> ol, input_type |-> it,
   output_type |-> ot]

\* TransactionCollector constructor, lines 192-220: "ok" or the error thrown
TransactionCollector_new(f) ==
  IF /\ ~Truthy(f.input_lock) /\ ~Truthy(f.output_lock)
     /\ ~Truthy(f.input_type) /\ Truthy(f.output_type)
  THEN "Either lock or type script must be provided!"
  ELSE IF Truthy(f.input_lock) /\ ~ValidateScript(f.input_lock)
  THEN "ValidationError"
  ELSE IF Truthy(f.output_lock) /\ ~ValidateScript(f.output_lock)
  THEN "ValidationError"
  ELSE IF Truthy(f.input_type) /\ ~ValidateScript(f.input_type)
  THEN "ValidationError"
  \* line 210 names `ouput_type`, an identifier bound nowhere
  ELSE IF Truthy(f.output_type) THEN "ReferenceError"
  ELSE "ok"

\* nativeIndexer.getTransactionsByScriptIterator(script, scriptType,
\* ioType).collect(): the hashes of the indexed transactions with an input
\* (0) or output (1) whose lock (0) or type (1) is the script, in chain order
nativeGetTransactionsByScript(blocks, script, scriptType, ioType) ==
  LET Scripts(tx) ==
        IF ioType = IO_TYPE_OUTPUT
        THEN {IF scriptType = SCRIPT_TYPE_LOCK THEN tx.outputs[k].lock
              ELSE tx.outputs[k].type : k \in 1..Len(tx.outputs)}
        ELSE {IF scriptType = SCRIPT_TYPE_LOCK
              THEN TxOfHash(blocks, i.tx_hash).outputs[HexToNat(i.index) + 1].lock
              ELSE TxOfHash(blocks, i.tx_hash).outputs[HexToNat(i.index) + 1].type :
                i \in {x \in TxSpent(tx) :
                         \E t \in AllTxs(blocks) : t.hash = x.tx_hash}}
      all == [n \in 1..Len(blocks) |->
                SelectSeq(blocks[n].transactions,
                          LAMBDA tx : script \in Scripts(tx))]
      Flat[n \in 0..Len(blocks)] ==
        IF n = 0 THEN <<>>
        ELSE Flat[n - 1] \o [k \in 1..Len(all[n]) |-> all[n][k].hash]
  IN Flat[Len(blocks)]

\* Indexer._getTransactionsByScriptIterator, lines 51-57: its body passes
\* `ioType`, an identifier bound nowhere (the parameters are script and
\* scriptType), so the call throws a ReferenceError: <<>> stands for the
\* throw, <<hashes>> for a result
getTransactionsByScriptIterator(blocks, script, scriptType) == <<>>

\* lines 223-242 and 248-266, one `if`: the accumulator after a filter
IntersectFilter(blocks, acc, script, scriptType) ==
  IF ~Truthy(script) \/ acc.raised THEN acc
  ELSE LET it == getTransactionsByScriptIterator(blocks, script, scriptType)
       IN IF it = <<>> THEN [raised |-> TRUE, hashes |-> <<>>]
          ELSE [raised |-> FALSE, hashes |-> intersect(acc.hashes, it[1])]

\* the four filters applied to `let hashes = new OrderedSet()`
FilteredHashes(blocks, f) ==
  LET h0 == [raised |-> FALSE, hashes |-> <<>>]
      h1 == IntersectFilter(blocks, h0, f.input_lock, 0)
      h2 == IntersectFilter(blocks, h1, f.output_lock, 0)
      h3 == IntersectFilter(blocks, h2, f.input_type, 1)
  IN IntersectFilter(blocks, h3, f.output_type, 1)

\* TransactionCollector.count()
TransactionCollector_count(blocks, f) ==
  LET h == FilteredHashes(blocks, f)
  IN [raised |-> h.raised, count |-> Len(h.hashes)]

\* rpc.get_transaction(hash): the node answers for the transactions of its
\* chain, and null (<<>>) for any other hash
get_transaction(h) ==
  IF \E t \in AllTxs(chain) : t.hash = h
  THEN <<[transaction |-> TxOfHash(chain, h), tx_status |-> "committed"]>>
  ELSE <<>>

\* TransactionCollector.collect(): what it yields, and whether it throws.
\* The loop of lines 269-279 fetches get_transaction(hash) where its
\* variable is `h`: `hash` is bound nowhere, so the first pass throws.
TransactionCollector_collect(blocks, f, skipMissing, includeStatus) ==
  LET h == FilteredHashes(blocks, f)
  IN IF h.raised THEN [raised |-> TRUE, items |-> <<>>]
     ELSE IF h.hashes # <<>> THEN [raised |-> TRUE, items |-> <<>>]
     ELSE [raised |-> FALSE, items |-> <<>>]

\* ------------------------------------------------------------------ claims
BlockRowOf(n) == CHOOSE r \in db.block_digests : r.block_number = n

\* some block was appended and rolled back again
RolledBackBefore ==
  Cardinality(db.transaction_digests) < db.next_tx_id - 1

\* C1: block_digests holds exactly the block numbers 0..tip, once each; the
\* row of number n carries the hash of the n-th block appended and not rolled
\* back; each such block's parent_hash is the stored hash of the block below
\* it; tip() is the number and hash of the highest of them, null iff none.
C1_ChainPrefix ==
  /\ {r.block_number : r \in db.block_digests} = 0..(Len(stored) - 1)
  /\ Cardinality(db.block_digests) = Len(stored)
  /\ \A n \in 1..Len(stored) :
       /\ HexToNat(stored[n].header.number) = n - 1
       /\ nodeBufferToHex(BlockRowOf(n - 1).block_hash) = stored[n].header.hash
  /\ \A n \in 1..(Len(stored) - 1) :
       stored[n + 1].header.parent_hash =
         nodeBufferToHex(BlockRowOf(n - 1).block_hash)
  /\ tip(db) = IF stored = <<>> THEN <<>>
               ELSE <<[block_number |-> stored[Len(stored)].header.number,
                       block_hash |-> stored[Len(stored)].header.hash]>>

\* an append two blocks above genesis after an earlier rollback
C1_Witness ==
  /\ last.op = "append"
  /\ Len(stored) >= 3
  /\ RolledBackBefore

\* the out points of the rows of cells that satisfy P
LiveCells == {c \in db.cells : ~c.consumed}
OutPointOf(c) ==
  [tx_hash |-> nodeBufferToHex(c.tx_hash), index |-> NatToHex(c.index)]

Produced(blocks) == UNION {TxOutPoints(tx) : tx \in AllTxs(blocks)}

\* C2: the cells with consumed = false are the unspent outputs of the stored
\* blocks replayed in order, and cells has one row for each output the stored
\* blocks produce (so a row appears with its producing block and goes with
\* it, and is consumed exactly while a stored block spends it).
C2_LiveIsUtxo ==
  /\ {OutPointOf(c) : c \in LiveCells} = Utxo(stored)
  /\ {OutPointOf(c) : c \in db.cells} = Produced(stored)
  /\ Cardinality(db.cells) = Cardinality(Produced(stored))

\* a rollback has removed a block whose second transaction spent a cell of
\* a lower block: the cell is live again
C2_Witness ==
  /\ last.op = "rollback"
  /\ Len(last.block[1].transactions) = 2
  /\ \E c \in LiveCells :
       OutPointOf(c) = last.block[1].transactions[2].inputs[1].previous_output

\* the local tip is a block of the node's chain
TipCanonical ==
  /\ stored # <<>>
  /\ Len(stored) <= Len(chain)
  /\ stored[Len(stored)].header.hash = chain[Len(stored)].header.hash

\* every stored block hash is the canonical hash at its height, and the
\* local tip is the canonical tip
Synced ==
  /\ Cardinality(db.block_digests) = Len(chain)
  /\ \A n \in 1..Len(chain) :
       \E r \in db.block_digests :
         /\ r.block_number = n - 1
         /\ nodeBufferToHex(r.block_hash) = chain[n].header.hash

\* C3 as stated: once the node's chain has stopped changing, a local tip
\* that is not a block of it leads to a store that equals the node's chain.
C3_AsStated == (frozen /\ stored # <<>> /\ ~TipCanonical) ~> Synced

\* C3 amended: the same where the node's chain is higher than the local tip
\* (block tip + 1 exists); and a poll cycle removes at most one block.
C3_ReorgRecovery ==
  /\ (frozen /\ stored # <<>> /\ ~TipCanonical /\ Len(chain) > Len(stored))
       ~> Synced
  /\ [][Len(stored') >= Len(stored) - 1]_vars

\* the node's chain has stopped two blocks or more above the fork: one poll
\* cycle has removed the local tip, the tip below it is no block of the
\* node's chain either, and the node has a block above it
C3_Witness ==
  /\ frozen
  /\ last.op = "rollback"
  /\ stored # <<>>
  /\ ~TipCanonical
  /\ Len(chain) > Len(stored)

\* ---- what the stored chain says about a cell
\* the output an out point names: its lock, type and data as the block had
\* them
ProducedOutput(blocks, o) ==
  LET tx == TxOfHash(blocks, o.tx_hash)
      k == HexToNat(o.index) + 1
  IN [lock |-> tx.outputs[k].lock, type |-> tx.outputs[k].type,
      capacity |-> tx.outputs[k].capacity, data |-> tx.outputs_data[k]]

IsPrefix(p, a) == Len(p) <= Len(a) /\ SubSeq(a, 1, Len(p)) = p

\* a produced script s satisfies the filter script f: same code_hash and
\* hash_type, args starting with the filter's args, and of argsLen bytes
\* when argsLen > 0
ScriptMatches(f, s, argsLen) ==
  /\ IsObject(s)
  /\ s.code_hash = f.code_hash
  /\ s.hash_type = f.hash_type
  /\ IsPrefix(f.args, s.args)
  /\ (argsLen > 0 => Len(s.args) = 2 * argsLen)

\* the unspent outputs of the stored chain, each with the output produced
LiveOutputs ==
  LET live == Utxo(stored)
  IN [o \in live |-> ProducedOutput(stored, o)]

\* those of them that satisfy a query's scripts
MatchingLive(live, q) ==
  {o \in DOMAIN live :
     /\ Truthy(q.lock) => ScriptMatches(q.lock, live[o].lock, q.argsLen)
     /\ Truthy(q.type) => ScriptMatches(q.type, live[o].type, q.argsLen)}

\* the filter scripts the claims range over
LockFilters ==
  {MkScript(CodeA, "data", <<>>), MkScript(CodeA, "data", ArgsAB),
   MkScript(CodeA, "data", ArgsABCD), MkScript(CodeA, "type", <<>>),
   MkScript(CodeB, "data", ArgsAB)}
TypeFilters ==
  {MkScript(CodeB, "type", <<>>), MkScript(CodeB, "type", ArgsAB),
   MkScript(CodeB, "data", ArgsAB)}
ArgsLens == {-1, 0, 1, 2}
DataFilters == {<<>>, <<<<>>>>, <<<<0, 1>>>>, <<<<0, 2>>>>}

ItemOutPoints(items) == {items[k].out_point : k \in 1..Len(items)}

\* C5: for every lock and/or type filter and every argsLen (no data
\* filter), the SQL collector yields exactly the unspent outputs of the
\* stored chain whose lock, and type, satisfy the filter, each with the
\* lock and type it was produced with.
C5_ScriptFilter ==
  LET live == LiveOutputs
  IN \A lock \in LockFilters \cup {NullScript},
        type \in TypeFilters \cup {NullScript}, argsLen \in ArgsLens :
       (Truthy(lock) \/ Truthy(type)) =>
         LET q == MkQuery(lock, type, argsLen, <<>>)
             r == collect(db, q)
         IN /\ CellCollector_new(q) = "ok"
            /\ ~r.err
            /\ ItemOutPoints(r.items) = MatchingLive(live, q)
            /\ \A k \in 1..Len(r.items) :
                 LET o == live[r.items[k].out_point]
                 IN /\ r.items[k].cell_output.lock = o.lock
                    /\ r.items[k].cell_output.type = o.type

\* a live cell locked by L1 (args 0xab) and one locked by L2 (args
\* 0xabcd): the filter args 0xab yields both, and with argsLen = 1 only the
\* first
C5_Witness ==
  LET f == MkScript(CodeA, "data", ArgsAB)
      any == collect(db, MkQuery(f, NullScript, -1, <<>>)).items
      one == collect(db, MkQuery(f, NullScript, 1, <<>>)).items
  IN /\ Len(one) >= 1
     /\ Len(any) > Len(one)
     /\ \E k \in 1..Len(any) : any[k].cell_output.lock = L2

\* an unspent output satisfies a data filter: any data for null, the same
\* bytes otherwise
DataMatches(data, o) == data # <<>> => o.data = data[1]

\* C9: for every lock filter, the SQL collector with data = "0x" yields
\* exactly the matching unspent outputs whose data is empty, with data =
\* null all the matching unspent outputs, and with another value exactly
\* those whose data equals it; each item carries the data produced; and the
\* native-backed collector yields the same cells.
C9_DataFilter ==
  LET live == LiveOutputs
  IN \A lock \in LockFilters, data \in DataFilters :
       LET q == MkQuery(lock, NullScript, -1, data)
           r == collect(db, q)
       IN /\ ~r.err
          /\ ItemOutPoints(r.items) =
               {o \in MatchingLive(live, q) : DataMatches(data, live[o])}
          /\ \A k \in 1..Len(r.items) :
               r.items[k].data = live[r.items[k].out_point].data
          /\ LET n == NativeCollect(stored, q)
             IN /\ ~n.err
                /\ ItemOutPoints(n.items) = ItemOutPoints(r.items)
                /\ \A k \in 1..Len(n.items) :
                     n.items[k].data = live[n.items[k].out_point].data

\* live cells of one lock with empty and with non-empty data: "0x" yields
\* the first only, 0x01 the second only, null both
C9_Witness ==
  LET f == MkScript(CodeA, "data", <<>>)
      empty == collect(db, MkQuery(f, NullScript, -1, <<<<>>>>)).items
      one == collect(db, MkQuery(f, NullScript, -1, <<<<0, 1>>>>)).items
      any == collect(db, MkQuery(f, NullScript, -1, <<>>)).items
  IN /\ Len(empty) >= 1
     /\ Len(one) >= 1
     /\ Len(any) = Len(empty) + Len(one)

\* where the stored chain has an output: <<block number, position of the
\* transaction in its block, output index>>
PositionOf(o) ==
  LET n == CHOOSE i \in 1..Len(stored) :
             \E t \in Range(stored[i].transactions) : t.hash = o.tx_hash
      k == CHOOSE i \in 1..Len(stored[n].transactions) :
             stored[n].transactions[i].hash = o.tx_hash
  IN <<n - 1, k - 1, HexToNat(o.index)>>

PositionLess(a, b) ==
  \/ a[1] < b[1]
  \/ a[1] = b[1] /\ a[2] < b[2]
  \/ a[1] = b[1] /\ a[2] = b[2] /\ a[3] < b[3]

\* the queries C10 ranges over
OrderQueries ==
  {MkQuery(lock, type, -1, data) :
     lock \in {NullScript, MkScript(CodeA, "data", <<>>),
               MkScript(CodeA, "data", ArgsAB)},
     type \in {NullScript, MkScript(CodeB, "type", <<>>)},
     data \in {<<>>, <<<<>>>>}} \ {MkQuery(NullScript, NullScript, -1, d) :
                                     d \in {<<>>, <<<<>>>>}}

\* C10: collect() yields the selected cells in strictly ascending order of
\* (block number, position of the transaction, output index), so each once,
\* and count() is the number of cells collect() yields.
C10_OrderAndCount ==
  \A q \in OrderQueries :
    LET r == collect(db, q)
        n == count(db, q)
    IN /\ ~r.err /\ ~n.err
       /\ \A i, j \in 1..Len(r.items) :
            i < j => PositionLess(PositionOf(r.items[i].out_point),
                                  PositionOf(r.items[j].out_point))
       /\ ItemOutPoints(r.items) =
            {o \in MatchingLive(LiveOutputs, q) :
               DataMatches(q.data, LiveOutputs[o])}
       /\ n.count = Len(r.items)

\* three cells are yielded: from two blocks, and two of them outputs of one
\* transaction
C10_Witness ==
  LET r == collect(db, MkQuery(MkScript(CodeA, "data", <<>>), NullScript, -1,
                               <<>>))
  IN /\ Len(r.items) >= 3
     /\ \E i, j \in 1..Len(r.items) :
          /\ i # j
          /\ r.items[i].out_point.tx_hash = r.items[j].out_point.tx_hash
     /\ \E i, j \in 1..Len(r.items) :
          r.items[i].block_number # r.items[j].block_number

\* ---- transaction collector: what the filters mean
TxQueries ==
  {MkTxQuery(il, ol, it, ot) :
     il \in {NullScript, L0}, ol \in {NullScript, L0, L1},
     it \in {NullScript, T1}, ot \in {NullScript, T1}}

Supplied(f) ==
  \/ Truthy(f.input_lock) \/ Truthy(f.output_lock)
  \/ Truthy(f.input_type) \/ Truthy(f.output_type)

\* the hashes that belong to the set of every supplied filter, in the
\* insertion order of the first supplied filter's set
ExpectedTxs(blocks, f) ==
  LET sets == <<<<f.input_lock, 0, 0>>, <<f.output_lock, 0, 1>>,
                <<f.input_type, 1, 0>>, <<f.output_type, 1, 1>>>>
      supplied == SelectSeq(sets, LAMBDA x : Truthy(x[1]))
      Set(k) == nativeGetTransactionsByScript(blocks, supplied[k][1],
                                              supplied[k][2], supplied[k][3])
  IN IF supplied = <<>> THEN <<>>
     ELSE SelectSeq(Set(1), LAMBDA h :
            \A k \in 2..Len(supplied) : h \in Range(Set(k)))

\* C4 (where some transaction is in every supplied filter's set): count()
\* returns the number of those transactions and collect() yields them, in
\* the first supplied filter's order.
C4_OrderedIntersection ==
  \A f \in TxQueries :
    (Supplied(f) /\ ExpectedTxs(stored, f) # <<>>) =>
      LET c == TransactionCollector_count(stored, f)
          r == TransactionCollector_collect(stored, f, TRUE, TRUE)
      IN /\ ~c.raised
         /\ c.count = Len(ExpectedTxs(stored, f))
         /\ ~r.raised
         /\ Len(r.items) = Len(ExpectedTxs(stored, f))

\* C6 (where a live cell that satisfies the lock carries a type script):
\* with a lock and type = "empty" both front-ends yield exactly the unspent
\* outputs that satisfy the lock and carry no type script, and neither
\* throws.
C6_EmptyType ==
  LET live == LiveOutputs
  IN \A lock \in LockFilters :
       LET q == MkQuery(lock, EmptyString, -1, <<>>)
           locked == MatchingLive(live, MkQuery(lock, NullScript, -1, <<>>))
           untyped == {o \in locked : ~Truthy(live[o].type)}
           n == NativeCollect(stored, q)
           r == collect(db, q)
       IN untyped # locked =>
            /\ CellCollector_new(q) = "ok"
            /\ ~n.err /\ ItemOutPoints(n.items) = untyped
            /\ ~r.err /\ ItemOutPoints(r.items) = untyped

\* the scripts of the outputs of the node's chain: what a client builds its
\* filters of
ChainLocks ==
  UNION {{tx.outputs[k].lock : k \in 1..Len(tx.outputs)} : tx \in AllTxs(chain)}
ChainTypes ==
  UNION {{tx.outputs[k].type : k \in 1..Len(tx.outputs)} : tx \in AllTxs(chain)}

\* C7: a collector with no script filter is refused at construction, one
\* with a well-formed filter is constructed; for the cell collector and for
\* the transaction collector, output_type alone included.
C7_ConstructorValidation ==
  /\ \A lock \in ChainLocks \cup {NullScript},
        type \in ChainTypes \cup {NullScript} :
       (CellCollector_new(MkQuery(lock, type, -1, <<>>)) = "ok")
         <=> (Truthy(lock) \/ Truthy(type))
  /\ \A il, ol \in ChainLocks \cup {NullScript},
        it, ot \in ChainTypes \cup {NullScript} :
       (TransactionCollector_new(MkTxQuery(il, ol, it, ot)) = "ok")
         <=> Supplied(MkTxQuery(il, ol, it, ot))

\* the surviving hashes the node has no transaction for
Missing(f) ==
  {h \in Range(ExpectedTxs(stored, f)) : get_transaction(h) = <<>>}

\* C8: where the node answers null for a surviving hash, collect() throws
\* with skipMissing = false; with skipMissing = true it does not throw and
\* yields one item for each surviving hash the node has a transaction for.
C8_SkipMissing ==
  \A f \in TxQueries, includeStatus \in BOOLEAN :
    (Supplied(f) /\ Missing(f) # {}) =>
      /\ TransactionCollector_collect(stored, f, FALSE, includeStatus).raised
      /\ LET r == TransactionCollector_collect(stored, f, TRUE, includeStatus)
         IN /\ ~r.raised
            /\ Len(r.items) =
                 Len(ExpectedTxs(stored, f)) - Cardinality(Missing(f))

\* ---- the follower's loops
LiveLoops == {i \in 1..MaxLoops : loops[i].pc # "none"}

\* the hashes of the appends committed, oldest first
AppendedHashes ==
  LET a == SelectSeq(log, LAMBDA e : e.op = "append")
  IN [k \in 1..Len(a) |-> a[k].hash]

\* C11: newBlockListener has been called once for each append committed but
\* those whose continuation is still to run, and for nothing else; it has
\* heard the blocks in the order of their commits; and between two
\* rollbacks the appends commit in strictly increasing block number.
C11_ListenerOrder ==
  /\ Len(heard) + Cardinality({i \in 1..MaxLoops : loops[i].pc = "committed"})
       = Len(AppendedHashes)
  /\ IsPrefix(heard, AppendedHashes)
  /\ \A k \in 1..(Len(log) - 1) :
       (log[k].op = "append" /\ log[k + 1].op = "append") =>
         log[k + 1].number > log[k].number

\* C16: at most one timer or cycle exists at a time, and so at most one
\* store transaction is in flight.
C16_Serialized ==
  /\ Cardinality(LiveLoops) <= 1
  /\ Cardinality({i \in 1..MaxLoops : loops[i].pc \in {"trx", "rb_trx"}}) <= 1

C15_StopDrains ==
  /\ [][\A i \in 1..MaxLoops :
          (loops[i].pc = "timer" /\ loops'[i].pc = "tip") => isRunning]_vars
  /\ [][(isRunning /\ ~isRunning') =>
          \A i \in 1..MaxLoops :
            \/ loops'[i] = loops[i]
            \/ /\ loops[i].pc \in {"rpc", "trx", "rb_trx", "committed"}
               /\ loops'[i] = NoLoop]_vars
  /\ (~isRunning) ~> (isRunning \/ LiveLoops = {})

\* the client has stopped the follower (no cycle has failed) while append's
\* store transaction is in flight
C15_Witness ==
  /\ ~isRunning
  /\ failedAt = -1
  /\ \E i \in 1..MaxLoops : loops[i].pc = "trx"

\* the rows of block number n, table by table
BlockRows(d, n) ==
  LET txs == {t \in d.transaction_digests : t.block_number = n}
      ids == {t.id : t \in txs}
  IN [digests |-> {b \in d.block_digests : b.block_number = n},
      txs |-> txs,
      inputs |-> {r \in d.transaction_inputs : r.transaction_digest_id \in ids},
      tx_scripts |-> {r \in d.transactions_scripts :
                        r.transaction_digest_id \in ids},
      cells |-> {c \in d.cells : c.block_number = n}]

\* the store holds block number n whole: its digest, its transactions
\* 0..k, and for each of them its inputs, one cell for each of its outputs
\* and the transactions_scripts row of each output's lock
WholeBlock(d, n) ==
  LET rows == BlockRows(d, n)
  IN /\ Cardinality(rows.digests) = 1
     /\ rows.txs # {}
     /\ {t.tx_index : t \in rows.txs} = 0..(Cardinality(rows.txs) - 1)
     /\ \A t \in rows.txs :
          /\ \E r \in rows.inputs : r.transaction_digest_id = t.id
          /\ {c.index : c \in {x \in rows.cells : x.tx_hash = t.tx_hash}}
               = 0..(t.output_count - 1)
          /\ \A k \in 0..(t.output_count - 1) :
               \E r \in rows.tx_scripts :
                 /\ r.transaction_digest_id = t.id
                 /\ r.io_type = IO_TYPE_OUTPUT
                 /\ r.script_type = SCRIPT_TYPE_LOCK
                 /\ r.index = k

\* C19: whatever a collector may read at any moment, the store holds each
\* block number whole or not at all, also while an append is in flight; and
\* an append that fails leaves the store and the tip as they were and calls
\* no listener.
C19_AllOrNothing ==
  /\ [](\A n \in 0..SchedHeight :
          \/ WholeBlock(db, n)
          \/ /\ BlockRows(db, n).digests = {} /\ BlockRows(db, n).txs = {}
             /\ BlockRows(db, n).cells = {})
  /\ [][\A i \in 1..MaxLoops :
          (loops[i].pc = "trx" /\ loops'[i].pc = "none") =>
            /\ db' = db
            /\ tip(db') = tip(db)
            /\ heard' = heard]_vars

\* an append above genesis has failed
C19_Witness ==
  /\ last.op = "failed"
  /\ last.block # <<>>
  /\ db.block_digests # {}
  /\ ~isRunning

\* ---- pruning
TipNumber(d) == HexToNat(tip(d)[1].block_number)

\* the consumed cells prune() is to remove
Prunable(d) ==
  IF tip(d) = <<>> THEN {}
  ELSE {c \in d.cells : c.consumed /\ c.block_number < TipNumber(d) - keepNum}

\* C12: once the follower has appended a block whose number is a multiple of
\* pruneInterval, the consumed cells below tip - keepNum are eventually
\* gone from the store, by the follower's own cycles.
C12_PruneRuns ==
  [](( /\ last.op = "append"
       /\ HexToNat(last.block[1].header.number) % pruneInterval = 0
       /\ Prunable(db) # {})
      => <>(Prunable(db) = {}))

\* C13: a call of prune() removes only consumed cells of blocks below
\* tip - keepNum and only transaction_inputs rows of transactions below
\* tip - keepNum, adds nothing, leaves the four other tables and the id
\* counters as they were, changes nothing without a tip or with
\* tip <= keepNum, and leaves the answer of every collector query the same.
C13_PruneSafe ==
  [][last'.op = "prune" =>
       /\ db'.cells \subseteq db.cells
       /\ \A c \in db.cells \ db'.cells :
            /\ c.consumed
            /\ tip(db) # <<>>
            /\ c.block_number < TipNumber(db) - keepNum
       /\ db'.transaction_inputs \subseteq db.transaction_inputs
       /\ \A r \in db.transaction_inputs \ db'.transaction_inputs :
            /\ tip(db) # <<>>
            /\ \A t \in db.transaction_digests :
                 t.id = r.transaction_digest_id =>
                   t.block_number < TipNumber(db) - keepNum
       /\ db'.block_digests = db.block_digests
       /\ db'.transaction_digests = db.transaction_digests
       /\ db'.transactions_scripts = db.transactions_scripts
       /\ db'.scripts = db.scripts
       /\ db'.next_tx_id = db.next_tx_id
       /\ db'.next_cell_id = db.next_cell_id
       /\ db'.next_script_id = db.next_script_id
       /\ (tip(db) = <<>> \/ TipNumber(db) <= keepNum) => db' = db
       /\ \A q \in OrderQueries :
            /\ collect(db', q) = collect(db, q)
            /\ count(db', q) = count(db, q)]_vars

\* prune() has just removed the cell of an output of a stored block, and
\* the transaction_inputs rows of that block
C13_Witness ==
  /\ last.op = "prune"
  /\ LiveCells # {}
  /\ \E n \in 1..Len(stored) :
       \E tx \in Range(stored[n].transactions) :
         /\ \E o \in TxOutPoints(tx) :
              \A c \in db.cells : OutPointOf(c) # o
         /\ \A r \in db.transaction_inputs :
              \A t \in db.transaction_digests :
                t.id = r.transaction_digest_id =>
                  t.tx_hash # hexToNodeBuffer(tx.hash)

\* ---- append and rollback as inverses
\* the blocks the node may serve next on top of the stored chain
NextBlocks ==
  {MkBlock(mined + 1, Len(stored),
           IF stored = <<>> THEN <<0, 0>>
           ELSE stored[Len(stored)].header.hash, cb, spend) :
     cb \in CellbaseChoices, spend \in Spends(stored)}

\* the scripts rows of the outputs of a block
BlockScripts(d, block) ==
  {r \in d.scripts :
     \E tx \in Range(block.transactions) :
       \E k \in 1..Len(tx.outputs) :
         \/ r.script_hash = scriptToHash(tx.outputs[k].lock)
         \/ /\ Truthy(tx.outputs[k].type)
            /\ r.script_hash = scriptToHash(tx.outputs[k].type)}

\* the store after append(block); rollback()
RoundTrip(d, block) == rollback(append(d, block))

SameRows(a, b) ==
  /\ a.block_digests = b.block_digests
  /\ a.transaction_digests = b.transaction_digests
  /\ a.transaction_inputs = b.transaction_inputs
  /\ a.transactions_scripts = b.transactions_scripts
  /\ a.cells = b.cells

\* C17, as stated: append(block); rollback() leaves all six tables,
\* scripts included, with the rows they had.
C17_AsStated ==
  \A block \in NextBlocks :
    /\ SameRows(RoundTrip(db, block), db)
    /\ RoundTrip(db, block).scripts = db.scripts

\* C17: append(block); rollback() leaves block_digests, transaction_digests,
\* transaction_inputs, transactions_scripts and cells (consumed flags
\* included) with the rows they had; scripts keeps its rows and also the rows
\* the append interned for the block's output scripts.
C17_RoundTrip ==
  \A block \in NextBlocks :
    /\ SameRows(RoundTrip(db, block), db)
    /\ db.scripts \subseteq RoundTrip(db, block).scripts
    /\ RoundTrip(db, block).scripts \ db.scripts
         = BlockScripts(append(db, block), block) \ db.scripts

\* the store holds a consumed and a live cell, and a next block spends the
\* live cell into outputs of scripts the store has not seen
C17_Witness ==
  /\ \E c \in db.cells : c.consumed
  /\ \E block \in NextBlocks :
       /\ Len(block.transactions) = 2
       /\ append(db, block).cells # db.cells
       /\ \E c \in db.cells : ~c.consumed
            /\ \E x \in append(db, block).cells : x.id = c.id /\ x.consumed
       /\ RoundTrip(db, block).scripts # db.scripts

\* ---- the consumed flag
\* the transaction_inputs rows of transactions other than cellbases that
\* name the cell
SpendingInputs(d, c) ==
  {r \in d.transaction_inputs :
     /\ r.previous_tx_hash = c.tx_hash
     /\ r.previous_index = c.index
     /\ \E t \in d.transaction_digests :
          t.id = r.transaction_digest_id /\ t.tx_index > 0}

\* C18: a cell is consumed exactly when an input of a stored transaction of
\* tx_index > 0 names it; every cellbase has its inputs recorded; and a
\* cycle changes the flag only of cells named by an input of a transaction
\* of tx_index > 0 of the block it appends or removes.
C18_ConsumedFlag ==
  /\ [](\A c \in db.cells : c.consumed <=> SpendingInputs(db, c) # {})
  /\ [](\A t \in db.transaction_digests :
          t.tx_index = 0 =>
            \E r \in db.transaction_inputs :
              /\ r.transaction_digest_id = t.id
              /\ r.previous_tx_hash = hexToNodeBuffer(NullOutPoint.tx_hash)
              /\ r.previous_index = hexToDbBigInt(NullOutPoint.index))
  /\ [][\A c \in db.cells : \A x \in db'.cells :
          (x.id = c.id /\ x.consumed # c.consumed) =>
            /\ last'.op \in {"append", "rollback"}
            /\ \E k \in 2..Len(last'.block[1].transactions) :
                 OutPointOf(c) \in TxSpent(last'.block[1].transactions[k])]_vars

\* a rollback has just made a cell live again that the removed block had
\* spent, and the removed block's cellbase had its input recorded
C18_Witness ==
  /\ last.op = "rollback"
  /\ \E c \in db.cells :
       /\ ~c.consumed
       /\ \E k \in 2..Len(last.block[1].transactions) :
            OutPointOf(c) \in TxSpent(last.block[1].transactions[k])
  /\ TxSpent(last.block[1].transactions[1]) = {NullOutPoint}

\* ---- the four outcomes of a poll cycle
DigestOf(block) ==
  [block_number |-> hexToDbBigInt(block.header.number),
   block_hash |-> hexToNodeBuffer(block.header.hash)]

\* the node's answer for the block after the tip
Served == get_block_by_number(dbBigIntToHex(nextBlockNumber(tip(db))))

\* C20: a poll cycle does one of four things.  Without a tip it appends
\* block 0 and returns 1; with no block tip + 1 it leaves the store as it is
\* and returns pollIntervalSeconds * 1000; with a block tip + 1 whose
\* parent_hash is the tip's hash it appends that block and returns 1; with a
\* block tip + 1 of another parent_hash it removes the tip block, appends
\* nothing and returns 1.  So a block_digests row is added only for block
\* tip + 1 (or 0) with the tip's hash as its parent_hash.
C20_PollCases ==
  [][(last' # last \/ db' # db) =>
       /\ tip(db) = <<>> =>
            /\ last'.op = "append" /\ last'.timeout = 1
            /\ Served # <<>> /\ HexToNat(Served[1].header.number) = 0
            /\ db'.block_digests = {DigestOf(Served[1])}
       /\ (tip(db) # <<>> /\ Served = <<>>) =>
            /\ last'.op = "wait"
            /\ last'.timeout = pollIntervalSeconds * 1000
            /\ db' = db
       /\ (/\ tip(db) # <<>> /\ Served # <<>>
           /\ Served[1].header.parent_hash = tip(db)[1].block_hash) =>
            /\ last'.op = "append" /\ last'.timeout = 1
            /\ HexToNat(Served[1].header.number) = TipNumber(db) + 1
            /\ db'.block_digests = db.block_digests \cup {DigestOf(Served[1])}
            /\ tip(db')[1].block_hash = Served[1].header.hash
       /\ (/\ tip(db) # <<>> /\ Served # <<>>
           /\ Served[1].header.parent_hash # tip(db)[1].block_hash) =>
            /\ last'.op = "rollback" /\ last'.timeout = 1
            /\ db'.block_digests =
                 {b \in db.block_digests : b.block_number # TipNumber(db)}
            /\ Cardinality(db'.block_digests)
                 = Cardinality(db.block_digests) - 1
            /\ db'.cells \subseteq
                 {[c EXCEPT !.consumed = v] :
                    c \in db.cells, v \in BOOLEAN}
            /\ db'.transaction_digests \subseteq db.transaction_digests]_vars

\* a cycle has waited with pollIntervalSeconds after the cycles before it
\* appended and rolled back
C20_Witness ==
  /\ last.op = "wait"
  /\ last.timeout = pollIntervalSeconds * 1000
  /\ RolledBackBefore
  /\ stored # <<>>

\* ---- what rollback() touches
\* the ids of the transactions of block number n
TxIdsOf(d, n) == {t.id : t \in {x \in d.transaction_digests : x.block_number = n}}

\* the cells that an input of a transaction of block number n names
SpentBy(d, n) ==
  {c \in d.cells :
     \E r \in d.transaction_inputs :
       /\ r.transaction_digest_id \in TxIdsOf(d, n)
       /\ r.previous_tx_hash = c.tx_hash
       /\ r.previous_index = c.index}

\* d2 is d without its tip block
RollbackFrame(d, d2) ==
  IF tip(d) = <<>> THEN d2 = d
  ELSE
    LET N == TipNumber(d)
    IN /\ IF N = 0 THEN tip(d2) = <<>>
          ELSE tip(d2) # <<>> /\ TipNumber(d2) = N - 1
       /\ \A b \in d2.block_digests : b.block_number # N
       /\ \A t \in d2.transaction_digests : t.block_number # N
       /\ \A c \in d2.cells : c.block_number # N
       /\ \A r \in d2.transaction_inputs :
            r.transaction_digest_id \notin TxIdsOf(d, N)
       /\ \A r \in d2.transactions_scripts :
            r.transaction_digest_id \notin TxIdsOf(d, N)
       /\ d2.block_digests = {b \in d.block_digests : b.block_number < N}
       /\ d2.transaction_digests =
            {t \in d.transaction_digests : t.block_number < N}
       /\ d2.transaction_inputs =
            {r \in d.transaction_inputs :
               \E t \in d.transaction_digests :
                 t.id = r.transaction_digest_id /\ t.block_number < N}
       /\ d2.transactions_scripts =
            {r \in d.transactions_scripts :
               \E t \in d.transaction_digests :
                 t.id = r.transaction_digest_id /\ t.block_number < N}
       /\ d2.scripts = d.scripts
       /\ d2.cells =
            {IF c \in SpentBy(d, N) THEN [c EXCEPT !.consumed = FALSE] ELSE c :
               c \in {x \in d.cells : x.block_number < N}}

\* C21: rollback() removes exactly the tip block N: the tip becomes N - 1
\* (none for N = 0), no row of block N or of its transactions is left, the
\* rows of the blocks below are as they were but for the cells an input of
\* block N names, which are live again, and on a store without a block it
\* changes nothing.  This holds of rollback() called in any reachable store
\* and of every cycle that rolls back.
C21_RollbackFrame ==
  /\ [](RollbackFrame(db, rollback(db)))
  /\ [](tip(db) = <<>> => rollback(db) = db)
  /\ [][(last'.op = "rollback" /\ db' # db) => RollbackFrame(db, db')]_vars

\* a cycle has just removed a block that had spent a cell of a block below,
\* and the cell is live again
C21_Witness ==
  /\ last.op = "rollback"
  /\ Len(last.block[1].transactions) = 2
  /\ tip(db) # <<>>
  /\ TipNumber(db) + 1 = HexToNat(last.block[1].header.number)
  /\ \E c \in db.cells :
       /\ ~c.consumed
       /\ OutPointOf(c) \in TxSpent(last.block[1].transactions[2])
  /\ \A b \in db.block_digests :
       b.block_hash # hexToNodeBuffer(last.block[1].header.hash)

\* ---- errors inside a cycle
\* where a cycle waiting at pc may be after a step without an error
After(pc) ==
  CASE pc = "rpc" -> {"rpc", "trx", "rb_tip", "timer"}
    [] pc = "trx" -> {"trx", "committed"}
    [] pc = "committed" -> {"committed", "timer"}
    [] pc = "rb_trx" -> {"rb_trx", "timer"}
    [] OTHER -> {"none", "timer", "tip", "rpc", "trx", "committed", "rb_tip",
                 "rb_trx"}

\* this step is an error in the cycle of loop i
ErrorIn(i) == loops'[i].pc \notin After(loops[i].pc)

\* C22, as stated: an error in a cycle clears the running flag and leaves
\* no timer and no cycle, and the store and its tip are those the cycle
\* began with.
C22_AsStated ==
  [][\A i \in 1..MaxLoops :
       ErrorIn(i) =>
         /\ ~isRunning'
         /\ LiveLoops' = {}
         /\ db' = db
         /\ tip(db') = loops[i].t]_vars

\* C22: an error in a cycle clears the running flag and leaves no timer and
\* no cycle; a follower that is not running has none until start() is
\* called; after an error of the RPC or of the store the store and its tip
\* are those the cycle began with; after an error thrown by
\* newBlockListener the block the cycle appended is stored and is the tip.
C22_ErrorStops ==
  /\ [][\A i \in 1..MaxLoops :
          ErrorIn(i) =>
            /\ ~isRunning'
            /\ LiveLoops' = {}
            /\ db' = db
            /\ loops[i].pc # "committed" => tip(db') = loops[i].t
            /\ loops[i].pc = "committed" =>
                 /\ tip(db')[1].block_hash = loops[i].block[1].header.hash
                 /\ nextBlockNumber(tip(db')) = nextBlockNumber(loops[i].t) + 1
                 /\ heard' = Append(heard, loops[i].block[1].header.hash)]_vars
  /\ [](~isRunning => LiveLoops = {})
  /\ [][(~isRunning /\ isRunning') =>
          \E i \in 1..MaxLoops : loops'[i] = Timer(1, TRUE)]_vars

\* newBlockListener has thrown for a block above genesis: the follower has
\* stopped and the block is the store's tip
C22_Witness ==
  /\ last.op = "listener"
  /\ ~isRunning
  /\ LiveLoops = {}
  /\ failedAt >= 1
  /\ tip(db)[1].block_hash = last.block[1].header.hash

\* ---- the scripts table
\* the scripts rows of a script
RowsOf(d, script) ==
  {r \in d.scripts :
     /\ r.code_hash = hexToNodeBuffer(script.code_hash)
     /\ r.hash_type = (IF script.hash_type = "type" THEN 1 ELSE 0)
     /\ r.args = hexToNodeBuffer(script.args)}

\* the output that produced a cell, in the stored blocks
OutputOf(c) ==
  TxOfHash(stored, nodeBufferToHex(c.tx_hash)).outputs[c.index + 1]

\* the scripts the node's outputs may carry
AllScripts == {L0, L1, L2, T1}

\* C23: every cell's lock_script_id, and its type_script_id when it has
\* one, is the id of exactly one scripts row, and that row holds the
\* code_hash, hash_type and args of the lock (type) of the output that
\* produced the cell; a cell has a type_script_id exactly when its output
\* has a type; no two scripts rows hold the same code_hash, hash_type and
\* args, or the same id; ensureScriptInserted returns the id of the stored
\* row and leaves the store alone when the script is stored, and inserts one
\* row otherwise; and no step of append, rollback or prune changes or
\* removes a scripts row.
C23_ScriptsIntegrity ==
  /\ [](\A c \in db.cells :
          /\ {r \in db.scripts : r.id = c.lock_script_id}
               = RowsOf(db, OutputOf(c).lock)
          /\ Cardinality(RowsOf(db, OutputOf(c).lock)) = 1
          /\ Truthy(OutputOf(c).type) <=> c.type_script_id # 0
          /\ c.type_script_id # 0 =>
               /\ {r \in db.scripts : r.id = c.type_script_id}
                    = RowsOf(db, OutputOf(c).type)
               /\ Cardinality(RowsOf(db, OutputOf(c).type)) = 1)
  /\ [](\A r1, r2 \in db.scripts :
          (\/ r1.id = r2.id
           \/ /\ r1.code_hash = r2.code_hash
              /\ r1.hash_type = r2.hash_type
              /\ r1.args = r2.args) => r1 = r2)
  /\ [](\A script \in AllScripts :
          LET r == ensureScriptInserted(db, script)
          IN IF RowsOf(db, script) # {}
             THEN /\ r[1] = db
                  /\ \E row \in RowsOf(db, script) : row.id = r[2]
             ELSE /\ r[1].scripts \ db.scripts = RowsOf(r[1], script)
                  /\ db.scripts \subseteq r[1].scripts
                  /\ Cardinality(RowsOf(r[1], script)) = 1
                  /\ \E row \in RowsOf(r[1], script) : row.id = r[2])
  /\ [][db.scripts \subseteq db'.scripts]_vars

\* after a rollback and a prune the store holds a cell with a type script,
\* two cells of one lock script, and a scripts row no cell refers to
C23_Witness ==
  /\ last.op = "prune"
  /\ RolledBackBefore
  /\ \E c \in db.cells : c.type_script_id # 0
  /\ \E c1, c2 \in db.cells :
       c1.id # c2.id /\ c1.lock_script_id = c2.lock_script_id
  /\ \E r \in db.scripts :
       \A c \in db.cells : c.lock_script_id # r.id /\ c.type_script_id # r.id
====
